---- MODULE Spec2Model ----
(***************************************************************************)
(* Batch readers of tape/data_gen.py: the three generator readers          *)
(* (pretrain_sample_reader, sequence_sample_reader, normal_sample_reader), *)
(* the task dispatch get_sample_generator, and gen_batch_data.             *)
(*                                                                         *)
(* A numpy 1-D array is a sequence; an array reshaped to (L, 1) is the     *)
(* sequence of its L rows.  A Python list is an object on the heap: the    *)
(* reader and its caller hold references to it.                            *)
(***************************************************************************)
EXTENDS Integers, Sequences, FiniteSets, TLC

\* ------------------------------------------------------------ bounds
MaxFiles == 2
MaxEx == 3
MaxLen == 2
MaxBatch == 3
MaxFreeEx == 2

\* ------------------------------------------------------------ state
VARIABLES
    files,        \* files[k]: the archive stored at filenames[k]
    batch_size,   \* the batch_size argument
    model_config, \* the model_config dictionary
    reader,       \* what get_sample_generator returned, or the error it raised
    npass,        \* how many times the caller invokes reader()
    frames,       \* frames[r]: the locals and position of one generator
    heap,         \* heap[r]: the contents of the list object `examples`
    recv,         \* recv[p]: the references the caller received, in order
    hist,         \* hist[p]: each batch's contents at the moment it was yielded
    result,       \* result[p]: how the caller's last request ended
    loads,        \* loads[p]: the files np.load was called on, in order
    gen_in,       \* the arguments of gen_batch_data
    gen_out       \* what gen_batch_data returned

vars == <<files, batch_size, model_config, reader, npass, frames, heap, recv,
          hist, result, loads, gen_in, gen_out>>

readerVars == <<files, batch_size, model_config, reader, npass, frames, heap,
                recv, hist, result, loads>>

Passes == {1, 2}

\* ------------------------------------------------------------ arrays
RECURSIVE Sum(_)
Sum(s) == IF s = <<>> THEN 0 ELSE Head(s) + Sum(Tail(s))

Min(a, b) == IF a < b THEN a ELSE b

\* F(x), with x evaluated once
Bind(x, F(_)) == CHOOSE v \in {F(y) : y \in {x}} : TRUE

\* a[lo:hi] of a 1-D array, 0 <= lo <= hi: the bounds are clipped to the array
Slice(a, lo, hi) ==
    [j \in 1..(Min(hi, Len(a)) - Min(lo, Len(a))) |-> a[Min(lo, Len(a)) + j]]

\* a.reshape(rows, 1) succeeds exactly when a holds rows elements
CanReshape(a, rows) == Len(a) = rows

\* np.arange(n)
Arange(n) == [j \in 1..n |-> j - 1]

\* ------------------------------------------------------------ archives
TOKEN_IDS == "token_ids"
LENGTHS == "lengths"
DEFAULT_LABEL_NAME == "labels"
OtherLabelName == "target"
LabelNames == {DEFAULT_LABEL_NAME, OtherLabelName}

MASK_ID == 99
IGNORE_LABEL == -1

\* the masking transform: a same-length masked buffer and a same-length label
\* buffer; here every second position is masked
ApplyBertMask(token_ids) ==
    [masked |-> [j \in 1..Len(token_ids) |->
                    IF j % 2 = 0 THEN MASK_ID ELSE token_ids[j]],
     labels |-> [j \in 1..Len(token_ids) |->
                    IF j % 2 = 0 THEN token_ids[j] ELSE IGNORE_LABEL]]

\* np.load(filename) and the field reads that precede the example loop, in the
\* order the reader makes them; err is the exception the first failing one raises
LoadArchive(variant, label_name, arch) ==
    LET need == IF variant = "pretrain" THEN <<TOKEN_IDS, LENGTHS>>
                ELSE <<TOKEN_IDS, label_name, LENGTHS>>
        absent == {j \in 1..Len(need) : need[j] \notin DOMAIN arch.data}
    IN  IF ~arch.exists THEN [err |-> "FileNotFoundError"]
        ELSE IF absent # {} THEN [err |-> "KeyError"]
        ELSE IF variant = "pretrain"
             THEN [err |-> "none",
                   tokens |-> ApplyBertMask(arch.data[TOKEN_IDS]).masked,
                   labels |-> ApplyBertMask(arch.data[TOKEN_IDS]).labels,
                   lengths |-> arch.data[LENGTHS]]
             ELSE [err |-> "none",
                   tokens |-> arch.data[TOKEN_IDS],
                   labels |-> arch.data[label_name],
                   lengths |-> arch.data[LENGTHS]]

\* ------------------------------------------------------------ one example
\* offset = 0 at the start of each file
FileStartOffset == 0

\* the offset advanced by one per example instead of by the example's length
NextOffsetByOne(offset, len) == offset + 1

\* offset += lengths[i]
NextOffset(offset, len) == offset + len

\* the token rows of example i, before the reshape
TokenSlice(tokens, offset, len) == Slice(tokens, offset, offset + len)

\* the scalar reader's label taken at the token offset instead of the index
LabelSliceByOffset(variant, labels, i, offset, len) ==
    IF variant = "normal" THEN Slice(labels, offset, offset + 1)
    ELSE Slice(labels, offset, offset + len)

\* the label rows of example i, before the reshape: by token offset in the
\* pretraining and sequence readers, by example index in the scalar reader
LabelSlice(variant, labels, i, offset, len) ==
    IF variant = "normal" THEN Slice(labels, i, i + 1)
    ELSE Slice(labels, offset, offset + len)

LabelRows(variant, len) == IF variant = "normal" THEN 1 ELSE len

\* the tuple (tokens, pos, label) of example i (0-based), or the ValueError of
\* a reshape whose array has the wrong number of elements
BuildExample(variant, d, i, offset) ==
    LET len == d.lengths[i + 1]
        tokens == TokenSlice(d.tokens, offset, len)
        label == LabelSlice(variant, d.labels, i, offset, len)
    IN  IF ~CanReshape(tokens, len) THEN [err |-> "ValueError"]
        ELSE IF ~CanReshape(label, LabelRows(variant, len))
             THEN [err |-> "ValueError"]
        ELSE [err |-> "none",
              ex |-> [tokens |-> tokens, pos |-> Arange(len), label |-> label]]

\* ------------------------------------------------------------ the generator
\* if len(examples) == batch_size
BatchFull(acc) == Len(acc) = batch_size

\* the last batch yielded only when it is full
FinalBatchOnlyIfFull(acc) == Len(acc) = batch_size

\* if len(examples) > 0, after the last file
FinalBatch(acc) == Len(acc) > 0

\* the list left as it is after a yield
AfterYieldKeep(acc) == acc

\* examples.clear(), on resuming after a yield inside the loop
AfterYield(acc) == <<>>

\* one set of locals shared by every call of __reader__
SharedFrame(p) == 1

\* each call of __reader__ has its own locals
FrameOf(p) == p

Stop(pc, fi, i, offset, acc, opened, err) ==
    [pc |-> pc, fi |-> fi, i |-> i, offset |-> offset, acc |-> acc,
     opened |-> opened, err |-> err]

\* The body of __reader__ from a position to its next yield, return or raise.
\* RunFile enters the file loop at file fi; RunExample enters the example loop
\* of file fi at example i.
RECURSIVE RunFile(_, _, _, _), RunExample(_, _, _, _, _, _, _)

\* a file whose load fails is skipped
SkipFailedFile(rd, fi, acc, opened, err) == RunFile(rd, fi + 1, acc, opened)

\* an exception of np.load or of a field read leaves the generator
OnLoadError(rd, fi, acc, opened, err) ==
    Stop("raised", fi, 0, 0, acc, opened, err)

RunFile(rd, fi, acc, opened) ==
    IF fi > Len(files)
    THEN IF FinalBatch(acc)
         THEN Stop("yield_final", fi, 0, 0, acc, opened, "none")
         ELSE Stop("done", fi, 0, 0, acc, opened, "none")
    ELSE Bind(LoadArchive(rd.variant, rd.label_name, files[fi]), LAMBDA d :
            IF d.err # "none"
            THEN OnLoadError(rd, fi, acc, Append(opened, fi), d.err)
            ELSE RunExample(rd, d, fi, 0, FileStartOffset, acc, Append(opened, fi)))

\* d: the arrays read from file fi
RunExample(rd, d, fi, i, offset, acc, opened) ==
    IF i >= Len(d.lengths) THEN RunFile(rd, fi + 1, acc, opened)
    ELSE Bind(BuildExample(rd.variant, d, i, offset), LAMBDA b :
            IF b.err # "none"
            THEN Stop("raised", fi, i, offset, acc, opened, b.err)
            ELSE IF BatchFull(Append(acc, b.ex))
                 THEN Stop("yield_loop", fi, i, offset, Append(acc, b.ex),
                           opened, "none")
                 ELSE RunExample(rd, d, fi, i + 1,
                                 NextOffset(offset, d.lengths[i + 1]),
                                 Append(acc, b.ex), opened))

\* one request for the next batch, from the generator's current position
Resume(rd, f, acc) ==
    CASE f.pc = "start" -> RunFile(rd, 1, <<>>, <<>>)
      [] f.pc = "yield_loop" ->
            Bind(LoadArchive(rd.variant, rd.label_name, files[f.fi]), LAMBDA d :
                RunExample(rd, d, f.fi, f.i + 1,
                           NextOffset(f.offset, d.lengths[f.i + 1]),
                           AfterYield(acc), <<>>))
      [] f.pc = "yield_final" -> Stop("done", f.fi, 0, 0, acc, <<>>, "none")
      [] OTHER -> Stop(f.pc, f.fi, f.i, f.offset, acc, <<>>, f.err)

NewFrame == [pc |-> "new", fi |-> 0, i |-> 0, offset |-> 0, err |-> "none"]

\* ------------------------------------------------------------ dispatch
ConfigGet(cfg, key, default) == IF key \in DOMAIN cfg THEN cfg[key] ELSE default

NoReader == [kind |-> "unset", variant |-> "none", label_name |-> "none",
             error |-> "none", task |-> "none"]

MakeReader(variant, label_name) ==
    [kind |-> "reader", variant |-> variant, label_name |-> label_name,
     error |-> "none", task |-> "none"]

UnsupportedTask(task) ==
    [kind |-> "error", variant |-> "none", label_name |-> "none",
     error |-> "NameError", task |-> task]

\* the dispatch without the regression task
SelectReaderNoRegression(cfg) ==
    LET task == cfg["task"]
    IN  IF task = "pretrain"
        THEN MakeReader("pretrain", "none")
        ELSE IF task = "seq_classification"
        THEN MakeReader("sequence", ConfigGet(cfg, "label_name", DEFAULT_LABEL_NAME))
        ELSE IF task = "classification"
        THEN MakeReader("normal", ConfigGet(cfg, "label_name", DEFAULT_LABEL_NAME))
        ELSE UnsupportedTask(task)

\* get_sample_generator's result for a configuration
SelectReader(cfg) ==
    LET task == cfg["task"]
    IN  IF task = "pretrain"
        THEN MakeReader("pretrain", "none")
        ELSE IF task = "seq_classification"
        THEN MakeReader("sequence", ConfigGet(cfg, "label_name", DEFAULT_LABEL_NAME))
        ELSE IF task \in {"classification", "regression"}
        THEN MakeReader("normal", ConfigGet(cfg, "label_name", DEFAULT_LABEL_NAME))
        ELSE UnsupportedTask(task)

GetSampleGenerator ==
    /\ reader.kind = "unset"
    /\ reader' = SelectReader(model_config)
    /\ UNCHANGED <<files, batch_size, model_config, npass, frames, heap, recv,
                   hist, result, loads, gen_in, gen_out>>

\* reader(): a new generator, whose body has not started
StartPass(p) ==
    /\ reader.kind = "reader"
    /\ p <= npass
    /\ frames[FrameOf(p)].pc = "new"
    /\ frames' = [frames EXCEPT ![FrameOf(p)].pc = "start"]
    /\ UNCHANGED <<files, batch_size, model_config, reader, npass, heap, recv,
                   hist, result, loads, gen_in, gen_out>>

\* next(generator): runs the body to its next yield, return or raise
NextBatch(p) ==
    LET r == FrameOf(p)
        f == frames[r]
    IN  /\ reader.kind = "reader"
        /\ p <= npass
        /\ f.pc # "new"
        /\ \E s \in {Resume(reader, f, heap[r])} :
              LET yielded == s.pc \in {"yield_loop", "yield_final"}
              IN  /\ frames' = [frames EXCEPT ![r] =
                                   [pc |-> s.pc, fi |-> s.fi, i |-> s.i,
                                    offset |-> s.offset, err |-> s.err]]
                  /\ heap' = [heap EXCEPT ![r] = s.acc]
                  /\ recv' = IF yielded THEN [recv EXCEPT ![p] = Append(@, r)]
                             ELSE recv
                  /\ hist' = IF yielded THEN [hist EXCEPT ![p] = Append(@, s.acc)]
                             ELSE hist
                  /\ result' = [result EXCEPT ![p] =
                                   IF yielded THEN "batch"
                                   ELSE IF s.pc = "raised" /\ f.pc # "raised"
                                        THEN s.err
                                   ELSE "StopIteration"]
                  /\ loads' = [loads EXCEPT ![p] = @ \o s.opened]
        /\ UNCHANGED <<files, batch_size, model_config, reader, npass, gen_in,
                       gen_out>>

Next ==
    \/ GetSampleGenerator
    \/ \E p \in Passes : StartPass(p)
    \/ \E p \in Passes : NextBatch(p)

\* ------------------------------------------------------------ gen_batch_data
Alphabet == {"A", "C", "G"}
CLS_ID == 1
SEP_ID == 2
CharId(c) == CASE c = "A" -> 5 [] c = "C" -> 6 [] OTHER -> 7

\* tokenizer.gen_token_ids(example): one id per character, or the same
\* between a start and an end token
GenTokenIds(tokenizer, example) ==
    LET ids == [j \in 1..Len(example) |-> CharId(example[j])]
    IN  IF tokenizer = "char" THEN ids ELSE <<CLS_ID>> \o ids \o <<SEP_ID>>

\* the example's own length appended instead of the running total
LodEntryOwnLength(token_ids, cur_token_ids) == Len(cur_token_ids)

\* lods.append(len(token_ids)), after the example's ids were added
LodEntry(token_ids, cur_token_ids) == Len(token_ids)

\* the loop over examples, from example k on
RECURSIVE GenLoop(_, _, _, _, _, _)
GenLoop(examples, tokenizer, k, token_ids, pos, lods) ==
    IF k > Len(examples)
    THEN [token_ids |-> token_ids, pos |-> pos, lods |-> lods]
    ELSE LET cur_token_ids == GenTokenIds(tokenizer, examples[k])
             ids == token_ids \o cur_token_ids
         IN  GenLoop(examples, tokenizer, k + 1, ids,
                     pos \o Arange(Len(cur_token_ids)),
                     Append(lods, LodEntry(ids, cur_token_ids)))

\* a LoDTensor: the rows of its (-1, 1) array and its level-0 offset table
LoDTensor(rows, lods) == [data |-> rows, lod |-> <<lods>>]

NoBatchData == [called |-> FALSE]

GenBatchData ==
    /\ ~gen_out.called
    /\ LET g == GenLoop(gen_in.examples, gen_in.tokenizer, 1, <<>>, <<>>, <<0>>)
       IN  gen_out' = [called |-> TRUE,
                       protein_token |-> LoDTensor(g.token_ids, g.lods),
                       protein_pos |-> LoDTensor(g.pos, g.lods)]
    /\ UNCHANGED <<readerVars, gen_in>>

NextGen == GenBatchData

\* ------------------------------------------------------------ inputs
FieldNames == {TOKEN_IDS, LENGTHS} \cup LabelNames

LabelBase(name) == IF name = DEFAULT_LABEL_NAME THEN 1000 ELSE 2000

\* the archive at position k of the file list: token k*100+j at index j, and
\* every label field holding nlab values that name the field and the file
Archive(k, lens, ntok, nlab, fields) ==
    [exists |-> TRUE,
     data |-> [f \in fields |->
                 CASE f = TOKEN_IDS -> [j \in 1..ntok |-> 100 * k + j]
                   [] f = LENGTHS -> lens
                   [] OTHER -> [j \in 1..nlab |-> LabelBase(f) + 100 * k + j]]]

MissingFile == [exists |-> FALSE, data |-> [f \in {} |-> <<>>]]

PerExampleTasks == {"classification", "regression"}

\* the length a label field must have for a task's reader
LabelLen(task, lens) == IF task \in PerExampleTasks THEN Len(lens) ELSE Sum(lens)

\* n examples whose lengths run through 0..MaxLen, starting at k
PatternLens(k, n) == [i \in 1..n |-> (i + k - 1) % (MaxLen + 1)]

SoundArchive(task, k, n) ==
    Archive(k, PatternLens(k, n), Sum(PatternLens(k, n)),
            LabelLen(task, PatternLens(k, n)), FieldNames)

\* archives whose load fails, or that lack a field
BrokenArchives(task, k) ==
    {MissingFile} \cup
    {Archive(k, PatternLens(k, 1), Sum(PatternLens(k, 1)),
             LabelLen(task, PatternLens(k, 1)), FieldNames \ {f}) : f \in FieldNames}

PatternArchives(task, k) ==
    {SoundArchive(task, k, n) : n \in 0..MaxEx} \cup BrokenArchives(task, k)

\* the lists of nf archives, the k-th one taken from Choices(k)
RECURSIVE ListsOf(_, _)
ListsOf(Choices(_), nf) ==
    IF nf = 0 THEN {<<>>}
    ELSE {Append(fl, a) : fl \in ListsOf(Choices, nf - 1), a \in Choices(nf)}

PatternLists(task) ==
    UNION {ListsOf(LAMBDA k : PatternArchives(task, k), nf) : nf \in 0..MaxFiles}

LenSeqs == UNION {[1..n -> 0..MaxLen] : n \in 0..MaxFreeEx}

Near(x) == {y \in {x - 1, x, x + 1} : y >= 0}

\* archives with any lengths, whose buffers are exact, one short or one long
FreeArchives(k) ==
    UNION {{Archive(k, lens, ntok, nlab, FieldNames) :
               ntok \in Near(Sum(lens)),
               nlab \in Near(Sum(lens)) \cup Near(Len(lens))} : lens \in LenSeqs}

Tasks == {"pretrain", "seq_classification", "classification", "regression"}

UnsupportedTasks == {"bogus", "PRETRAIN"}

NoConfigLabel == "absent"

Config(task, label) ==
    IF label = NoConfigLabel THEN [k \in {"task"} |-> task]
    ELSE [k \in {"task", "label_name"} |-> IF k = "task" THEN task ELSE label]

InitReaderState(n) ==
    /\ reader = NoReader
    /\ npass = n
    /\ frames = [p \in Passes |-> NewFrame]
    /\ heap = [p \in Passes |-> <<>>]
    /\ recv = [p \in Passes |-> <<>>]
    /\ hist = [p \in Passes |-> <<>>]
    /\ result = [p \in Passes |-> "none"]
    /\ loads = [p \in Passes |-> <<>>]

NoGen ==
    /\ gen_in = [examples |-> <<>>, tokenizer |-> "char"]
    /\ gen_out = NoBatchData

\* npass passes of one reader over pattern archives, every variant of reader
InitPasses(n) ==
    /\ \E task \in Tasks \ {"regression"} :
          /\ model_config = Config(task, NoConfigLabel)
          /\ files \in PatternLists(task)
    /\ batch_size \in 1..MaxBatch
    /\ InitReaderState(n)
    /\ NoGen

Init == InitPasses(1)

Spec == Init /\ [][Next]_vars

InitTwo == InitPasses(2)

SpecTwo == InitTwo /\ [][Next]_vars

\* one pass of one reader, every configuration, pattern archives
InitDispatch ==
    /\ \E task \in Tasks \cup UnsupportedTasks, label \in LabelNames \cup {NoConfigLabel} :
          /\ model_config = Config(task, label)
          /\ files \in PatternLists(task)
    /\ batch_size \in 1..MaxBatch
    /\ InitReaderState(1)
    /\ NoGen

SpecDispatch == InitDispatch /\ [][Next]_vars

\* one pass over full pattern archives followed by one archive of any shape
InitSlice ==
    /\ \E task \in Tasks \ {"regression"} :
          /\ model_config = Config(task, NoConfigLabel)
          /\ \E nf \in 1..MaxFiles :
                files \in {Append(fl, last) :
                              fl \in ListsOf(LAMBDA k : {SoundArchive(task, k, MaxEx)},
                                             nf - 1),
                              last \in FreeArchives(nf)}
    /\ batch_size \in 1..MaxBatch
    /\ InitReaderState(1)
    /\ NoGen

SpecSlice == InitSlice /\ [][Next]_vars

Strings == UNION {[1..n -> Alphabet] : n \in 0..MaxLen}

InitGen ==
    /\ files = <<>>
    /\ batch_size = 1
    /\ model_config = Config("pretrain", NoConfigLabel)
    /\ InitReaderState(0)
    /\ gen_in \in [examples : UNION {[1..n -> Strings] : n \in 0..MaxFreeEx},
                   tokenizer : {"char", "cls_sep"}]
    /\ gen_out = NoBatchData

SpecGen == InitGen /\ [][NextGen]_vars

\* ------------------------------------------------------------ what a pass should yield
\* the fields a reader reads of each archive
NeededFields ==
    IF reader.variant = "pretrain" THEN {TOKEN_IDS, LENGTHS}
    ELSE {TOKEN_IDS, LENGTHS, reader.label_name}

Loadable(k) == files[k].exists /\ NeededFields \subseteq DOMAIN files[k].data

\* the first file whose load fails, or Len(files) + 1
FirstBad ==
    LET bad == {k \in 1..Len(files) : ~Loadable(k)}
    IN  IF bad = {} THEN Len(files) + 1
        ELSE CHOOSE k \in bad : \A m \in bad : k <= m

Lens(k) == files[k].data[LENGTHS]

TokBuf(k) ==
    IF reader.variant = "pretrain"
    THEN ApplyBertMask(files[k].data[TOKEN_IDS]).masked
    ELSE files[k].data[TOKEN_IDS]

LabBuf(k) ==
    IF reader.variant = "pretrain"
    THEN ApplyBertMask(files[k].data[TOKEN_IDS]).labels
    ELSE files[k].data[reader.label_name]

\* the number of examples of files 1..K
RECURSIVE TotalExamples(_)
TotalExamples(K) == IF K = 0 THEN 0 ELSE TotalExamples(K - 1) + Len(Lens(K))

\* <<file, example>> of every example of files 1..K, in file order and then in
\* example order (both 1-based)
RECURSIVE Pairs(_)
Pairs(K) ==
    IF K = 0 THEN <<>>
    ELSE Pairs(K - 1) \o [i \in 1..Len(Lens(K)) |-> <<K, i>>]

\* sum of lengths[0..i-1] of file k, for the i-th example counted from 1
OffsetOf(k, i) == Sum(SubSeq(Lens(k), 1, i - 1))

\* the buffer's elements at 0-based indices off .. off+len-1
Window(buf, off, len) == [j \in 1..len |-> buf[off + j]]

RECURSIVE Flat(_)
Flat(batches) == IF batches = <<>> THEN <<>> ELSE Head(batches) \o Flat(Tail(batches))

CeilDiv(n, b) == (n + b - 1) \div b

Done(p) == frames[p].pc = "done"

\* ------------------------------------------------------------ C1
\* C1: a full pass over N examples with batch size B >= 1 yields exactly
\* ceil(N/B) batches, the first N div B of exactly B examples and a last one of
\* N mod B examples only when N mod B # 0; no batch is empty, and a batch
\* shorter than B is yielded only after the last file was read.
BatchingExact ==
    \A p \in Passes :
        LET h == hist[p]
            N == TotalExamples(Len(files))
            B == batch_size
        IN  /\ \A m \in 1..Len(h) :
                  /\ Len(h[m]) >= 1
                  /\ Len(h[m]) <= B
                  /\ Len(h[m]) < B =>
                        /\ m = Len(h)
                        /\ frames[p].pc \in {"yield_final", "done"}
                        /\ loads[p] = [k \in 1..Len(files) |-> k]
            /\ Done(p) =>
                  /\ Len(h) = CeilDiv(N, B)
                  /\ \A m \in 1..(N \div B) : Len(h[m]) = B
                  /\ N % B # 0 => Len(h[Len(h)]) = N % B

\* a finished pass over two files whose first file ends inside a batch and
\* whose last batch is short
BatchingExactWitness ==
    \E p \in Passes :
        /\ Done(p)
        /\ Len(files) = 2
        /\ Len(Lens(1)) % batch_size # 0
        /\ TotalExamples(2) % batch_size # 0
        /\ Len(hist[p]) >= 2

\* ------------------------------------------------------------ C10
\* the example a reader should build from example i of file k (both 1-based)
ExpectedExample(k, i) ==
    [tokens |-> Window(TokBuf(k), OffsetOf(k, i), Lens(k)[i]),
     pos |-> [j \in 1..Lens(k)[i] |-> j - 1],
     label |-> IF reader.variant = "normal" THEN <<LabBuf(k)[i]>>
               ELSE Window(LabBuf(k), OffsetOf(k, i), Lens(k)[i])]

\* whether the buffers of file k hold what example i needs
Covered(k, i) ==
    /\ OffsetOf(k, i) + Lens(k)[i] <= Len(TokBuf(k))
    /\ IF reader.variant = "normal" THEN i <= Len(LabBuf(k))
       ELSE OffsetOf(k, i) + Lens(k)[i] <= Len(LabBuf(k))

\* C10: over a full pass, the batches as yielded, concatenated, are all the
\* examples in file order and then example order, each exactly once.
PassYieldsEveryExampleOnce ==
    \A p \in Passes :
        Done(p) =>
            LET out == Flat(hist[p])
                want == Pairs(Len(files))
            IN  /\ Len(out) = Len(want)
                /\ \A j \in 1..Len(want) :
                      /\ Covered(want[j][1], want[j][2])
                      /\ out[j] = ExpectedExample(want[j][1], want[j][2])

\* a finished pass with an example of length 0 and a batch that holds examples
\* of two files
PassYieldsEveryExampleOnceWitness ==
    \E p \in Passes :
        /\ Done(p)
        /\ Len(files) = 2
        /\ \E j \in 1..Len(Flat(hist[p])) : Flat(hist[p])[j].tokens = <<>>
        /\ \E m \in 1..Len(hist[p]) :
              /\ Len(hist[p][m]) >= 2
              /\ hist[p][m][1].tokens # <<>>
              /\ hist[p][m][2].tokens # <<>>
              /\ hist[p][m][1].tokens[1] \div 100 # hist[p][m][2].tokens[1] \div 100

\* ------------------------------------------------------------ C2
\* C2: a batch that was yielded keeps the contents it had when it was yielded,
\* whatever the caller requests afterwards.
YieldedBatchesStayUnchanged ==
    \A p \in Passes :
        \A m \in 1..Len(recv[p]) : heap[recv[p][m]] = hist[p][m]

\* ------------------------------------------------------------ C7
\* the batches of a pass consumed alone, from a generator position on
RECURSIVE SoloFrom(_, _, _)
SoloFrom(f, acc, fuel) ==
    Bind(Resume(reader, f, acc), LAMBDA s :
        IF fuel = 0 \/ s.pc \notin {"yield_loop", "yield_final"} THEN <<>>
        ELSE <<s.acc>> \o SoloFrom(s, s.acc, fuel - 1))

SoloBatches ==
    SoloFrom([NewFrame EXCEPT !.pc = "start"], <<>>,
             (MaxFiles + 1) * (MaxEx + 1) + 1)

IsPrefix(a, b) == Len(a) <= Len(b) /\ a = SubSeq(b, 1, Len(a))

\* C7: two passes of one reader over the same files, their requests
\* interleaved in any way, each yield the batches of a pass consumed alone.
PassesAreIndependent ==
    reader.kind = "reader" =>
        \E solo \in {SoloBatches} :
            \A p \in Passes :
                /\ IsPrefix(hist[p], solo)
                /\ frames[p].pc \in {"done", "raised"} => hist[p] = solo

\* the second pass ran to its end while the first one was suspended after its
\* first batch
PassesAreIndependentWitness ==
    /\ frames[1].pc = "yield_loop"
    /\ Len(hist[1]) = 1
    /\ Done(2)
    /\ Len(hist[2]) >= 2
    /\ Len(files) = 2

\* ------------------------------------------------------------ C9
\* the examples files 1..K should give, in order
ExpectedUpTo(K) ==
    [j \in 1..Len(Pairs(K)) |-> ExpectedExample(Pairs(K)[j][1], Pairs(K)[j][2])]

\* C9: when the load of a file fails, the pass opened every file before it and
\* that file once, raised the error at the request that reached the file, and
\* yields only the full batches of the files before it: no partial batch, no
\* batch of a later file, and no batch after the error.
LoadFailureAborts ==
    reader.kind = "reader" =>
        \A p \in Passes :
            LET K == FirstBad - 1
                full == TotalExamples(K) \div batch_size
            IN  FirstBad <= Len(files) =>
                    /\ ~Done(p)
                    /\ IsPrefix(loads[p], [k \in 1..FirstBad |-> k])
                    /\ Len(hist[p]) <= full
                    /\ Flat(hist[p]) = SubSeq(ExpectedUpTo(K), 1, Len(hist[p]) * batch_size)
                    /\ frames[p].pc = "raised" =>
                          /\ frames[p].err \in {"FileNotFoundError", "KeyError"}
                          /\ frames[p].fi = FirstBad
                          /\ loads[p] = [k \in 1..FirstBad |-> k]
                          /\ Len(hist[p]) = full
                    /\ (Len(loads[p]) = FirstBad) = (frames[p].pc = "raised")
                    /\ result[p] \in {"FileNotFoundError", "KeyError"} =>
                          frames[p].pc = "raised"
                    /\ frames[p].pc = "raised" =>
                          result[p] \in {frames[p].err, "StopIteration"}

\* the second file failed to load while a batch was incomplete, and the caller
\* asked again
LoadFailureAbortsWitness ==
    \E p \in Passes :
        /\ frames[p].pc = "raised"
        /\ frames[p].fi = 2
        /\ Len(hist[p]) >= 1
        /\ heap[p] # <<>>
        /\ result[p] = "StopIteration"

\* ------------------------------------------------------------ C3
\* C3: a pass never completes over an archive whose lengths do not sum to the
\* number of its token ids.
LengthMismatchRaises ==
    \A p \in Passes :
        Done(p) =>
            \A k \in 1..Len(files) : Sum(Lens(k)) = Len(files[k].data[TOKEN_IDS])

\* ------------------------------------------------------------ C4
\* C4: in the sequence-labeling and pretraining readers, every example has the
\* tokens and the labels found at the same offset of its file's buffers, the
\* offset being the sum of the lengths before it in that file, and the
\* positions 0 .. length-1.
SliceBySharedOffset ==
    reader.variant \in {"sequence", "pretrain"} =>
        \A p \in Passes :
            LET out == Flat(hist[p])
                want == Pairs(Len(files))
            IN  /\ Len(out) <= Len(want)
                /\ \A j \in 1..Len(out) :
                      LET k == want[j][1]
                          i == want[j][2]
                          off == Sum(SubSeq(Lens(k), 1, i - 1))
                          len == Lens(k)[i]
                      IN  /\ off + len <= Len(TokBuf(k))
                          /\ off + len <= Len(LabBuf(k))
                          /\ out[j].tokens = [x \in 1..len |-> TokBuf(k)[off + x]]
                          /\ out[j].label = [x \in 1..len |-> LabBuf(k)[off + x]]
                          /\ out[j].pos = [x \in 1..len |-> x - 1]

\* the sequence-labeling reader yielded the second example of a second file,
\* both examples of that file holding tokens
SliceBySharedOffsetWitness ==
    /\ reader.variant = "sequence"
    /\ Len(files) = 2
    /\ Len(Lens(1)) >= 1
    /\ Len(Lens(2)) = 2
    /\ Lens(2)[1] >= 1
    /\ Lens(2)[2] >= 1
    /\ \E p \in Passes : Len(Flat(hist[p])) = Len(Pairs(2))

\* ------------------------------------------------------------ C5
\* C5: in the scalar-label reader every example's label is the one value
\* labels[i] of its file, i the example's index, and its tokens are the slice
\* at the running token offset.
ScalarLabelByIndex ==
    reader.variant = "normal" =>
        \A p \in Passes :
            LET out == Flat(hist[p])
                want == Pairs(Len(files))
            IN  /\ Len(out) <= Len(want)
                /\ \A j \in 1..Len(out) :
                      LET k == want[j][1]
                          i == want[j][2]
                          off == Sum(SubSeq(Lens(k), 1, i - 1))
                          len == Lens(k)[i]
                      IN  /\ i <= Len(LabBuf(k))
                          /\ out[j].label = <<LabBuf(k)[i]>>
                          /\ off + len <= Len(TokBuf(k))
                          /\ out[j].tokens = [x \in 1..len |-> TokBuf(k)[off + x]]

\* lengths = [2, 1] with three label values: the second example was yielded
\* with labels[1], not the value at its token offset
ScalarLabelByIndexWitness ==
    /\ reader.variant = "normal"
    /\ Len(files) = 1
    /\ Lens(1) = <<2, 1>>
    /\ Len(files[1].data[DEFAULT_LABEL_NAME]) = 3
    /\ \E p \in Passes :
          /\ Len(Flat(hist[p])) = 2
          /\ Flat(hist[p])[2].label = <<files[1].data[DEFAULT_LABEL_NAME][2]>>
          /\ Flat(hist[p])[2].tokens = <<files[1].data[TOKEN_IDS][3]>>

\* ------------------------------------------------------------ C6
ConfiguredLabel ==
    IF "label_name" \in DOMAIN model_config THEN model_config["label_name"]
    ELSE "labels"

\* C6: pretrain gives the pretraining reader, seq_classification the
\* sequence-labeling reader, classification and regression the scalar-label
\* reader, with the configured label field or labels; any other task gives an
\* error naming the task, and no file is opened before or after it.
DispatchByTask ==
    LET task == model_config["task"]
    IN  /\ reader.kind = "unset" => \A p \in Passes : loads[p] = <<>>
        /\ reader.kind # "unset" =>
              /\ task = "pretrain" =>
                    reader.kind = "reader" /\ reader.variant = "pretrain"
              /\ task = "seq_classification" =>
                    /\ reader.kind = "reader"
                    /\ reader.variant = "sequence"
                    /\ reader.label_name = ConfiguredLabel
              /\ task \in {"classification", "regression"} =>
                    /\ reader.kind = "reader"
                    /\ reader.variant = "normal"
                    /\ reader.label_name = ConfiguredLabel
              /\ task \notin {"pretrain", "seq_classification", "classification",
                              "regression"} =>
                    /\ reader.kind = "error"
                    /\ reader.error = "NameError"
                    /\ reader.task = task
                    /\ \A p \in Passes : loads[p] = <<>> /\ frames[p].pc = "new"
        /\ \A p \in Passes :
              \A j \in 1..Len(Flat(hist[p])) :
                 LET label == Flat(hist[p])[j].label
                 IN  /\ task \in {"classification", "regression"} => Len(label) = 1
                     /\ task # "pretrain" =>
                           \A x \in 1..Len(label) :
                              label[x] \div 1000 = LabelBase(ConfiguredLabel) \div 1000

\* an unsupported task was refused
DispatchByTaskWitness ==
    /\ reader.kind = "error"
    /\ reader.task = "bogus"
    /\ model_config["task"] = "bogus"
    /\ Len(files) >= 1

\* ------------------------------------------------------------ C8
\* C8: gen_batch_data's offset table is 0 followed by the running totals of the
\* tokenizer outputs' lengths, the token rows are the outputs concatenated in
\* input order, the position rows count from 0 within each example, and both
\* tensors carry the same offset table.
LodsDelimitExamples ==
    gen_out.called =>
        LET ex == gen_in.examples
            tok == gen_out.protein_token
            pos == gen_out.protein_pos
            lods == tok.lod[1]
        IN  /\ Len(tok.lod) = 1
            /\ pos.lod = tok.lod
            /\ Len(lods) = Len(ex) + 1
            /\ lods[1] = 0
            /\ lods[Len(lods)] = Len(tok.data)
            /\ Len(pos.data) = Len(tok.data)
            /\ \A k \in 1..Len(ex) :
                  LET ids == GenTokenIds(gen_in.tokenizer, ex[k])
                  IN  /\ lods[k + 1] = lods[k] + Len(ids)
                      /\ lods[k + 1] <= Len(tok.data)
                      /\ \A x \in 1..Len(ids) :
                            /\ tok.data[lods[k] + x] = ids[x]
                            /\ pos.data[lods[k] + x] = x - 1

\* ['AC', 'G'] with one id per character: lods [0, 2, 3], positions [0, 1, 0]
LodsDelimitExamplesWitness ==
    /\ gen_out.called
    /\ gen_in.tokenizer = "char"
    /\ gen_in.examples = <<<<"A", "C">>, <<"G">>>>
    /\ gen_out.protein_token.lod = <<<<0, 2, 3>>>>
    /\ gen_out.protein_pos.data = <<0, 1, 0>>

====
